---- MODULE Spec2Model ----
(***************************************************************************)
(* A model of pwgen.py: one invocation of main() with a parsed argument    *)
(* namespace, dispatching to generate_password, generate_passphrase,       *)
(* generate_token or generate_token_url.                                   *)
(*                                                                         *)
(* Text is modelled as a sequence of one-character strings.  The grave     *)
(* accent of the punctuation set cannot be written in a TLA+ string        *)
(* literal and is represented by the atom "grave".                         *)
(***************************************************************************)
EXTENDS Integers, Sequences, FiniteSets, TLC

VARIABLES
    args,       \* the argparse namespace handed to args.func
    fs,         \* the set of paths that are regular files
    pc,         \* position of the invocation
    chars,      \* generate_password: the alphabet
    secret,     \* the local variable secret
    fp,         \* generate_passphrase: resolved word-list path
    delimiter,  \* generate_passphrase: the delimiter in use
    words,      \* generate_passphrase: the loaded word collection
    out,        \* lines printed on standard output, in order
    exc         \* the exception raised by args.func, or None

vars == <<args, fs, pc, chars, secret, fp, delimiter, words, out, exc>>

None == "None"
Unbound == "<unbound>"

-----------------------------------------------------------------------------
(* Bounds of the model *)

\* seeds of the random source: a draw sequence is base, base+step, ...
MaxBase == 2
MaxStep == 5
\* how far above the minimum the short lengths go
LenWindow == 2
\* a password length in the range where 62^l leaves the double range
LongPwLength == 172
\* a token byte count in the range where 16^(2l) leaves the double range
LongTokLength == 128
\* the largest symbol count whose logarithm is tabulated
MaxSymbols == 91
\* symbol counts next to 2^k are explored for k up to this
MaxCountBits == 50
\* the largest length entropy() is called with on its own
MaxEntropyLength == 10

-----------------------------------------------------------------------------
(* Program constants *)

PW_MIN == 13
PHRASE_MIN == 3
TOKEN_MIN == 31
URL_TOKEN_MIN == 31

ascii_lowercase ==
    <<"a", "b", "c", "d", "e", "f", "g", "h", "i", "j", "k", "l", "m",
      "n", "o", "p", "q", "r", "s", "t", "u", "v", "w", "x", "y", "z">>
ascii_uppercase ==
    <<"A", "B", "C", "D", "E", "F", "G", "H", "I", "J", "K", "L", "M",
      "N", "O", "P", "Q", "R", "S", "T", "U", "V", "W", "X", "Y", "Z">>
ascii_letters == ascii_lowercase \o ascii_uppercase
digits == <<"0", "1", "2", "3", "4", "5", "6", "7", "8", "9">>
punctuation ==
    <<"!", "#", "$", "%", "&", "(", ")", "*", "+", ",", "-", ".", ":", ";",
      "<", "=", ">", "?", "@", "[", "\\", "]", "^", "_", "grave", "{", "|",
      "}", "~">>

Range(s) == {s[i] : i \in 1..Len(s)}

islower(c) == c \in Range(ascii_lowercase)
isupper(c) == c \in Range(ascii_uppercase)
isdigit(c) == c \in Range(digits)

-----------------------------------------------------------------------------
(* Python's int is unbounded.  A natural number is a sequence of limbs in  *)
(* base 2^15, least significant first, with no leading zero limb; zero is  *)
(* the empty sequence.                                                     *)

LimbBits == 15
Base == 2^LimbBits

RECURSIVE Pow2(_)
Pow2(k) == IF k = 0 THEN 1 ELSE 2 * Pow2(k - 1)

RECURSIVE BigOf(_)
BigOf(n) == IF n = 0 THEN <<>> ELSE <<n % Base>> \o BigOf(n \div Base)

RECURSIVE BigTrim(_)
BigTrim(x) ==
    IF x = <<>> THEN <<>>
    ELSE IF x[Len(x)] = 0 THEN BigTrim(SubSeq(x, 1, Len(x) - 1)) ELSE x

\* the value as a model integer, for values below 2^30
RECURSIVE BigToInt(_)
BigToInt(x) == IF x = <<>> THEN 0 ELSE x[1] + Base * BigToInt(Tail(x))

Max(a, b) == IF a >= b THEN a ELSE b

Limb(x, i) == IF i <= Len(x) THEN x[i] ELSE 0

\* limbs lo..hi of x + y with carry c into limb lo, and the carry out of hi.
\* Ranges are halved so that the nesting stays logarithmic in the length.
RECURSIVE BigAddRange(_, _, _, _, _)
BigAddRange(x, y, lo, hi, c) ==
    IF lo = hi
    THEN LET t == Limb(x, lo) + Limb(y, lo) + c
         IN  [s |-> <<t % Base>>, c |-> t \div Base]
    ELSE LET mid   == (lo + hi) \div 2
             left  == BigAddRange(x, y, lo, mid, c)
             right == BigAddRange(x, y, mid + 1, hi, left.c)
         IN  [s |-> left.s \o right.s, c |-> right.c]

BigAdd(x, y) ==
    LET n == Max(Len(x), Len(y))
        r == BigAddRange(x, y, 1, n, 0)
    IN  IF n = 0 THEN <<>>
        ELSE IF r.c = 0 THEN r.s ELSE Append(r.s, r.c)

RECURSIVE BigMulSmallRange(_, _, _, _, _)
BigMulSmallRange(x, m, lo, hi, c) ==
    IF lo = hi
    THEN LET t == x[lo] * m + c
         IN  [s |-> <<t % Base>>, c |-> t \div Base]
    ELSE LET mid   == (lo + hi) \div 2
             left  == BigMulSmallRange(x, m, lo, mid, c)
             right == BigMulSmallRange(x, m, mid + 1, hi, left.c)
         IN  [s |-> left.s \o right.s, c |-> right.c]

\* x * m for a single limb m
BigMulSmall(x, m) ==
    LET r == BigMulSmallRange(x, m, 1, Len(x), 0)
    IN  IF m = 0 \/ x = <<>> THEN <<>>
        ELSE IF r.c = 0 THEN r.s ELSE Append(r.s, r.c)

\* x * Base^k
BigShiftLimbs(x, k) == IF x = <<>> THEN <<>> ELSE [i \in 1..k |-> 0] \o x

\* x * (y[lo] + y[lo+1] * Base + ... + y[hi] * Base^(hi-lo))
RECURSIVE BigMulRange(_, _, _, _)
BigMulRange(x, y, lo, hi) ==
    IF lo = hi THEN BigMulSmall(x, y[lo])
    ELSE LET mid == (lo + hi) \div 2
         IN  BigAdd(BigMulRange(x, y, lo, mid),
                    BigShiftLimbs(BigMulRange(x, y, mid + 1, hi), mid + 1 - lo))

BigMul(x, y) ==
    IF y = <<>> \/ x = <<>> THEN <<>> ELSE BigMulRange(x, y, 1, Len(y))

\* n ** l, by binary exponentiation
RECURSIVE BigPow(_, _)
BigPow(n, l) ==
    IF l = 0 THEN <<1>>
    ELSE LET h  == BigPow(n, l \div 2)
             sq == BigMul(h, h)
         IN  IF l % 2 = 1 THEN BigMul(sq, n) ELSE sq

RECURSIVE IntBitLength(_)
IntBitLength(n) == IF n = 0 THEN 0 ELSE 1 + IntBitLength(n \div 2)

\* int.bit_length()
BitLength(x) ==
    IF x = <<>> THEN 0 ELSE LimbBits * (Len(x) - 1) + IntBitLength(x[Len(x)])

\* -1, 0, 1 as x is below, equal to, above y
BigCmp(x, y) ==
    LET differ == {i \in 1..Len(x) : x[i] # Limb(y, i)}
        top    == CHOOSE i \in differ : \A j \in differ : j <= i
    IN  IF Len(x) < Len(y) THEN -1
        ELSE IF Len(x) > Len(y) THEN 1
        ELSE IF differ = {} THEN 0
        ELSE IF x[top] < y[top] THEN -1 ELSE 1

\* x * 2^k
BigShl(x, k) ==
    IF x = <<>> THEN <<>>
    ELSE LET q == k \div LimbBits
             r == k % LimbBits
         IN  [i \in 1..q |-> 0] \o BigMulSmall(x, Pow2(r))

\* floor(x / 2^k)
BigShr(x, k) ==
    LET q == k \div LimbBits
        r == k % LimbBits
        n == Len(x) - q
    IN  IF n <= 0 THEN <<>>
        ELSE BigTrim([i \in 1..n |->
                 (Limb(x, i + q) \div Pow2(r))
                 + (Limb(x, i + q + 1) % Pow2(r)) * Pow2(LimbBits - r)])

\* x mod 2^k
BigLow(x, k) ==
    LET q == k \div LimbBits
        r == k % LimbBits
    IN  IF Len(x) <= q THEN x
        ELSE BigTrim(SubSeq(x, 1, q) \o <<x[q + 1] % Pow2(r)>>)

BigIsOdd(x) == x # <<>> /\ x[1] % 2 = 1

-----------------------------------------------------------------------------
(* IEEE-754 binary64.  A finite positive double is [m, e] with value       *)
(* m * 2^e and 2^52 <= m < 2^53; zero is [m |-> <<>>, e |-> 0].            *)

DBL_MANT_DIG == 53
DBL_MAX_EXP == 1024

FloatZero == [m |-> <<>>, e |-> 0]

\* x * 2^e rounded to nearest, ties to even, to DBL_MANT_DIG bits
RoundToDouble(x, e) ==
    LET bl == BitLength(x)
        k  == bl - DBL_MANT_DIG
    IN  IF x = <<>> THEN FloatZero
        ELSE IF k <= 0 THEN [m |-> BigShl(x, -k), e |-> e + k]
        ELSE LET q    == BigShr(x, k)
                 r    == BigLow(x, k)
                 half == BigShl(<<1>>, k - 1)
                 c    == BigCmp(r, half)
                 up   == c = 1 \/ (c = 0 /\ BigIsOdd(q))
                 q1   == IF up THEN BigAdd(q, <<1>>) ELSE q
             IN  IF BitLength(q1) > DBL_MANT_DIG
                 THEN [m |-> BigShr(q1, 1), e |-> e + k + 1]
                 ELSE [m |-> q1, e |-> e + k]

\* the double is at or above 2^DBL_MAX_EXP: not representable
FloatOverflows(f) == f.m # <<>> /\ f.e + DBL_MANT_DIG > DBL_MAX_EXP

\* float(x) for an int x raises OverflowError when x is too large
float_overflows(x) == FloatOverflows(RoundToDouble(x, 0))

\* float(x) for an int x in range
float(x) == RoundToDouble(x, 0)

\* a * b for doubles, rounded
FloatMul(a, b) == RoundToDouble(BigMul(a.m, b.m), a.e + b.e)

\* int(f) for a double f >= 0: truncation
int(f) == IF f.e >= 0 THEN BigShl(f.m, f.e) ELSE BigShr(f.m, -f.e)

-----------------------------------------------------------------------------
(* math.log2 and entropy *)

\* fraction bits of the fixed-point working value of Log2
FracBits == 8 * LimbBits

\* one more bit of the binary expansion of log2(r), appended to st.M, where
\* st.R is r in [1, 2) scaled by 2^FracBits: squaring r doubles its logarithm
Log2Step(st) ==
    LET S == BigShr(BigMul(st.R, st.R), FracBits)
    IN  IF BitLength(S) > FracBits + 1
        THEN [R |-> BigShr(S, 1), M |-> BigAdd(BigAdd(st.M, st.M), <<1>>)]
        ELSE [R |-> S, M |-> BigAdd(st.M, st.M)]

\* k more bits.  The steps are halved, and the first half is evaluated before
\* the second starts (R is at least 2^FracBits, never zero), so that the
\* nesting of the evaluation stays logarithmic in k.
RECURSIVE Log2Bits(_, _)
Log2Bits(st, k) ==
    IF k = 0 THEN st
    ELSE IF k = 1 THEN Log2Step(st)
    ELSE LET half == Log2Bits(st, k \div 2)
         IN  IF half.R # <<>> THEN Log2Bits(half, k - k \div 2) ELSE half

\* math.log2(x) for a double x >= 1: the double nearest to the logarithm.
\* The logarithm of a power of two is exact; any other is irrational, so the
\* bits below the rounding position are never all zero.
Log2(x) ==
    LET E == x.e + DBL_MANT_DIG - 1
        F == DBL_MANT_DIG + 1 - IntBitLength(E)
        R == BigShl(x.m, FracBits - (DBL_MANT_DIG - 1))
        M == Log2Bits([R |-> R, M |-> BigOf(E)], F).M
    IN  IF BitLength(BigLow(x.m, DBL_MANT_DIG - 1)) = 0
        THEN RoundToDouble(BigOf(E), 0)
        ELSE RoundToDouble(BigAdd(BigAdd(M, M), <<1>>), -(F + 1))

\* 2^k - 1
BigOnes(k) ==
    [i \in 1..(k \div LimbBits) |-> Base - 1]
        \o (IF k % LimbBits = 0 THEN <<>> ELSE <<Pow2(k % LimbBits) - 1>>)

\* the symbol counts explored: the small ones, and those next to a power of two
EntropyCounts ==
    {BigOf(n) : n \in 2..MaxSymbols}
        \cup {BigOnes(k) : k \in 2..MaxCountBits}
        \cup {BigAdd(BigOnes(k), <<2>>) : k \in 2..MaxCountBits}

\* the symbol counts whose logarithm is tabulated
TabulatedCounts == EntropyCounts

\* math.log2(n) for an int n >= 1: the int is converted to a double first.
\* The logarithms of the symbol counts the invocations use are tabulated, so
\* that each is computed once.
log2_table == [n \in TabulatedCounts |-> Log2(float(n))]

math_log2(n) == IF n \in DOMAIN log2_table THEN log2_table[n] ELSE Log2(float(n))

\* entropy(l, n) for ints l >= 0 and n >= 1, given as naturals
entropy(l, n) == int(FloatMul(float(l), math_log2(n)))

-----------------------------------------------------------------------------
(* The random source.  secrets.choice(seq) returns seq[k] for an index k    *)
(* the operating system's generator decides; the model enumerates the      *)
(* index sequences base, base+step, base+2*step, ... (mod the population). *)

Seeds == [base : 0..MaxBase, step : 0..MaxStep]

randbelow(seed, i, n) == (seed.base + seed.step * i) % n

choice(seq, seed, i) == seq[randbelow(seed, i, Len(seq)) + 1]

-----------------------------------------------------------------------------
(* main(): the try/except around args.func(args) *)

\* the length check with its boundary off by one
TooShortStrict(length, minimum) == length < minimum

\* the length check that opens each generator
TooShort(length, minimum) == length <= minimum

CaughtByMain == {"ValueError", "FileNotFoundError"}

ErrorLine(msg) == [t |-> "error", v |-> msg]
SecretLine(s) == [t |-> "secret", v |-> s]
EntropyLine(e) == [t |-> "entropy", v |-> e]
CombinationsLine(f) == [t |-> "combinations", v |-> f]

\* raise: main prints the message of the two kinds it catches and returns;
\* any other exception leaves main unhandled
Raise(kind, msg) ==
    /\ exc' = kind
    /\ IF kind \in CaughtByMain
       THEN /\ out' = Append(out, ErrorLine(msg))
            /\ pc' = "done"
       ELSE /\ out' = out
            /\ pc' = "crashed"

\* the "if args.entropy:" block shared by the four generators
Report(l, n) ==
    LET e == entropy(BigOf(l), BigOf(n))
        c == BigPow(BigOf(n), l)
    IN  IF float_overflows(c)
        THEN /\ exc' = "OverflowError"
             /\ out' = Append(out, EntropyLine(e))
             /\ pc' = "crashed"
        ELSE /\ exc' = exc
             /\ out' = out \o <<EntropyLine(e), CombinationsLine(float(c))>>
             /\ pc' = "done"

-----------------------------------------------------------------------------
(* generate_password *)

PasswordAlphabet(punct) ==
    IF punct THEN ascii_letters \o digits \o punctuation
             ELSE ascii_letters \o digits

\* a candidate one character short
CandidateShort(alphabet, seed, length) ==
    [i \in 1..(length - 1) |-> choice(alphabet, seed, i - 1)]

Candidate(alphabet, seed, length) ==
    [i \in 1..length |-> choice(alphabet, seed, i - 1)]

\* the loop condition without its digit test
AcceptedNoDigit(s) ==
    /\ \E i \in 1..Len(s) : islower(s[i])
    /\ \E i \in 1..Len(s) : isupper(s[i])

Accepted(s) ==
    /\ \E i \in 1..Len(s) : islower(s[i])
    /\ \E i \in 1..Len(s) : isupper(s[i])
    /\ \E i \in 1..Len(s) : isdigit(s[i])

generate_password_begin ==
    /\ pc = "start"
    /\ args.func = "generate_password"
    /\ IF TooShort(args.length, PW_MIN)
       THEN /\ Raise("ValueError", "Password length must be greater than 13 characters")
            /\ UNCHANGED <<chars, secret>>
       ELSE /\ chars' = PasswordAlphabet(args.punctuation)
            /\ pc' = "pw_loop"
            /\ UNCHANGED <<secret, out, exc>>
    /\ UNCHANGED <<args, fs, fp, delimiter, words>>

\* one iteration of the while True loop
generate_password_loop ==
    /\ pc = "pw_loop"
    /\ \E seed \in Seeds :
          /\ secret' = Candidate(chars, seed, args.length)
          /\ pc' = IF Accepted(secret') THEN "pw_print" ELSE "pw_loop"
    /\ UNCHANGED <<args, fs, chars, fp, delimiter, words, out, exc>>

generate_password_print ==
    /\ pc = "pw_print"
    /\ out' = Append(out, SecretLine(secret))
    /\ pc' = IF args.entropy THEN "pw_report" ELSE "done"
    /\ UNCHANGED <<args, fs, chars, secret, fp, delimiter, words, exc>>

generate_password_report ==
    /\ pc = "pw_report"
    /\ Report(Len(secret), Len(chars))
    /\ UNCHANGED <<args, fs, chars, secret, fp, delimiter, words>>

-----------------------------------------------------------------------------
(* str methods and file reading used by generate_passphrase *)

Whitespace == {" ", "\t", "\n", "\r", "\f"}

IndexOf(seq, c) == CHOOSE i \in 1..Len(seq) : seq[i] = c

upper_char(c) == IF islower(c) THEN ascii_uppercase[IndexOf(ascii_lowercase, c)] ELSE c
lower_char(c) == IF isupper(c) THEN ascii_lowercase[IndexOf(ascii_uppercase, c)] ELSE c

upper(w) == [i \in 1..Len(w) |-> upper_char(w[i])]
lower(w) == [i \in 1..Len(w) |-> lower_char(w[i])]

\* str.title(): a letter that follows a non-letter is upper-cased, a letter
\* that follows a letter is lower-cased
title(w) ==
    [i \in 1..Len(w) |->
        IF i > 1 /\ (islower(w[i - 1]) \/ isupper(w[i - 1]))
        THEN lower_char(w[i]) ELSE upper_char(w[i])]

\* str.strip(): without leading and trailing whitespace
strip(w) ==
    LET keep == {i \in 1..Len(w) : w[i] \notin Whitespace}
        first == CHOOSE i \in keep : \A j \in keep : i <= j
        last  == CHOOSE i \in keep : \A j \in keep : j <= i
    IN  IF keep = {} THEN <<>> ELSE SubSeq(w, first, last)

\* f.readlines(): the lines of the text, each with its line feed
readlines(text) ==
    LET ends   == {i \in 1..Len(text) : text[i] = "\n"} \cup
                  (IF text # <<>> /\ text[Len(text)] # "\n" THEN {Len(text)} ELSE {})
        start(i) == IF \E j \in ends : j < i
                    THEN 1 + CHOOSE j \in ends : j < i /\ \A k \in ends : k < i => k <= j
                    ELSE 1
        order  == CHOOSE f \in [1..Cardinality(ends) -> ends] :
                     \A a, b \in 1..Cardinality(ends) : a < b => f[a] < f[b]
    IN  [k \in 1..Cardinality(ends) |-> SubSeq(text, start(order[k]), order[k])]

\* delimiter.join(parts)
RECURSIVE join(_, _)
join(d, parts) ==
    IF parts = <<>> THEN <<>>
    ELSE IF Len(parts) = 1 THEN parts[1]
    ELSE parts[1] \o <<d>> \o join(d, Tail(parts))

-----------------------------------------------------------------------------
(* generate_passphrase *)

wordlists ==
    <<"words.txt", "/usr/share/dict/words", "/usr/dict/words",
      "/etc/dictionaries-common/words">>

delimiters == <<"-", ".", ",", "_", "+", "~", "*", "|">>

\* the files the invocation may find, with their text
ExplicitFile == "my.txt"

FileText(path) ==
    CASE path = "words.txt" -> <<"a", "b", "\n", "C", "d", "\n">>
      [] path = "/usr/share/dict/words" ->
            <<"i", "t", "'", "s", "\n", "\n", "x", "-", "y", "\n">>
      [] path = "/usr/dict/words" -> <<>>
      [] path = "/etc/dictionaries-common/words" ->
            <<" ", "e", " ", "f", " ", "\n", "G">>
      [] path = ExplicitFile ->
            <<"o", "n", "e", "\n", " ", "\n", "t", "w", "o", "\n">>

\* truth value of an optional str argument
Truthy(s) == s # None /\ s # ""

\* Path(p).is_file(); Path("") is the current directory
is_file(p) == p \in fs

\* the fallback paths that are files, last first
ExistingWordlistsReversed ==
    LET found == SelectSeq(wordlists, is_file)
    IN  [i \in 1..Len(found) |-> found[Len(found) + 1 - i]]

\* line 113: the fallback paths that are files, in the order of wordlists
ExistingWordlists == SelectSeq(wordlists, is_file)

\* the list comprehensions of lines 125-130
LoadWords(text, capitalize) ==
    LET lines == readlines(text)
    IN  IF capitalize
        THEN [k \in 1..Len(lines) |-> strip(title(lines[k]))]
        ELSE [k \in 1..(2 * Len(lines)) |->
                 IF k % 2 = 1 THEN strip(upper(lines[(k + 1) \div 2]))
                              ELSE strip(lower(lines[k \div 2]))]

\* a phrase one word short
PhraseShort(ws, d, seed, length) ==
    join(d, [i \in 1..(length - 1) |-> choice(ws, seed, i - 1)])

Phrase(ws, d, seed, length) ==
    join(d, [i \in 1..length |-> choice(ws, seed, i - 1)])

\* lines 99-116: the length check and the word-list resolution
generate_passphrase_resolve ==
    /\ pc = "start"
    /\ args.func = "generate_passphrase"
    /\ IF TooShort(args.length, PHRASE_MIN)
       THEN /\ Raise("ValueError", "Passphrase must be greater than 3 words")
            /\ fp' = fp
       ELSE IF Truthy(args.file) /\ ~is_file(args.file)
       THEN /\ Raise("FileNotFoundError", "Word list does not exist")
            /\ fp' = fp
       ELSE IF Truthy(args.file) /\ is_file(args.file)
       THEN /\ fp' = args.file
            /\ pc' = "ph_delimiter"
            /\ UNCHANGED <<out, exc>>
       ELSE IF args.file = None
       THEN LET fps == ExistingWordlists
            IN  IF Len(fps) = 0
                THEN /\ Raise("FileNotFoundError",
                              "Word list not found. Please provide word-list file")
                     /\ fp' = fp
                ELSE /\ fp' = fps[1]
                     /\ pc' = "ph_delimiter"
                     /\ UNCHANGED <<out, exc>>
       ELSE \* no branch assigns fp
            /\ fp' = fp
            /\ pc' = "ph_delimiter"
            /\ UNCHANGED <<out, exc>>
    /\ UNCHANGED <<args, fs, chars, secret, delimiter, words>>

\* lines 118-122
generate_passphrase_delimiter ==
    /\ pc = "ph_delimiter"
    /\ IF Truthy(args.delimiter)
       THEN delimiter' = args.delimiter
       ELSE \E k \in 1..Len(delimiters) : delimiter' = delimiters[k]
    /\ pc' = "ph_load"
    /\ UNCHANGED <<args, fs, chars, secret, fp, words, out, exc>>

\* lines 124-130
generate_passphrase_load ==
    /\ pc = "ph_load"
    /\ IF fp = Unbound
       THEN /\ Raise("UnboundLocalError", "fp")
            /\ words' = words
       ELSE /\ words' = LoadWords(FileText(fp), args.capitalize)
            /\ pc' = "ph_sample"
            /\ UNCHANGED <<out, exc>>
    /\ UNCHANGED <<args, fs, chars, secret, fp, delimiter>>

\* lines 132-133
generate_passphrase_sample ==
    /\ pc = "ph_sample"
    /\ IF words = <<>>
       THEN /\ Raise("IndexError", "Cannot choose from an empty sequence")
            /\ secret' = secret
       ELSE /\ \E seed \in Seeds :
                  secret' = Phrase(words, delimiter, seed, args.length)
            /\ out' = Append(out, SecretLine(secret'))
            /\ pc' = IF args.entropy THEN "ph_report" ELSE "done"
            /\ exc' = exc
    /\ UNCHANGED <<args, fs, chars, fp, delimiter, words>>

\* lines 135-142
generate_passphrase_report ==
    /\ pc = "ph_report"
    /\ Report(args.length + 1, Len(words) + Len(delimiters))
    /\ UNCHANGED <<args, fs, chars, secret, fp, delimiter, words>>

-----------------------------------------------------------------------------
(* generate_token and generate_token_url *)

hexdigits ==
    <<"0", "1", "2", "3", "4", "5", "6", "7", "8", "9", "a", "b", "c", "d", "e", "f">>

urlsafe_alphabet == ascii_uppercase \o ascii_lowercase \o digits \o <<"-", "_">>

\* secrets.token_bytes(nbytes): bytes 0..nbytes-1 as a function of the index
token_byte(seed, i) == randbelow(seed, i, 256)

\* secrets.token_hex(nbytes): two hex digits per byte
token_hex(seed, nbytes) ==
    [j \in 1..(2 * nbytes) |->
        LET b == token_byte(seed, (j - 1) \div 2)
        IN  IF j % 2 = 1 THEN hexdigits[(b \div 16) + 1] ELSE hexdigits[(b % 16) + 1]]

\* secrets.token_urlsafe(nbytes): URL-safe base64 of the bytes, padding removed
token_urlsafe(seed, nbytes) ==
    LET n == 4 * (nbytes \div 3) + (IF nbytes % 3 = 0 THEN 0 ELSE (nbytes % 3) + 1)
        byte(i) == IF i < nbytes THEN token_byte(seed, i) ELSE 0
        sextet(j) ==
            LET g  == (j - 1) \div 4
                p  == (j - 1) % 4
                b0 == byte(3 * g)
                b1 == byte(3 * g + 1)
                b2 == byte(3 * g + 2)
            IN  CASE p = 0 -> b0 \div 4
                  [] p = 1 -> (b0 % 4) * 16 + (b1 \div 16)
                  [] p = 2 -> (b1 % 16) * 4 + (b2 \div 64)
                  [] p = 3 -> b2 % 64
    IN  [j \in 1..n |-> urlsafe_alphabet[sextet(j) + 1]]

\* lines 160-164
generate_token_begin ==
    /\ pc = "start"
    /\ args.func = "generate_token"
    /\ IF TooShort(args.length, TOKEN_MIN)
       THEN /\ Raise("ValueError", "Token length must be greater than 31")
            /\ secret' = secret
       ELSE /\ \E seed \in Seeds : secret' = token_hex(seed, args.length)
            /\ out' = Append(out, SecretLine(secret'))
            /\ pc' = IF args.entropy THEN "tok_report" ELSE "done"
            /\ exc' = exc
    /\ UNCHANGED <<args, fs, chars, fp, delimiter, words>>

\* lines 166-172
generate_token_report ==
    /\ pc = "tok_report"
    /\ Report(Len(secret), Len(hexdigits))
    /\ UNCHANGED <<args, fs, chars, secret, fp, delimiter, words>>

\* lines 191-195
generate_token_url_begin ==
    /\ pc = "start"
    /\ args.func = "generate_token_url"
    /\ IF TooShort(args.length, URL_TOKEN_MIN)
       THEN /\ Raise("ValueError", "Token length must be greater than 31")
            /\ secret' = secret
       ELSE /\ \E seed \in Seeds : secret' = token_urlsafe(seed, args.length)
            /\ out' = Append(out, SecretLine(secret'))
            /\ pc' = IF args.entropy THEN "url_report" ELSE "done"
            /\ exc' = exc
    /\ UNCHANGED <<args, fs, chars, fp, delimiter, words>>

\* lines 197-203
generate_token_url_report ==
    /\ pc = "url_report"
    /\ Report(Len(secret), Len(ascii_letters) + Len(digits))
    /\ UNCHANGED <<args, fs, chars, secret, fp, delimiter, words>>

-----------------------------------------------------------------------------
(* The invocations explored *)

Bool == {TRUE, FALSE}

PwLengths ==
    ((PW_MIN - 1)..(PW_MIN + LenWindow)) \cup ((LongPwLength - 1)..LongPwLength)

PhraseLengths == (PHRASE_MIN - 1)..(PHRASE_MIN + LenWindow)

TokenLengths ==
    ((TOKEN_MIN - 1)..(TOKEN_MIN + LenWindow))
        \cup ((LongTokLength - 1)..(LongTokLength + 1))

PasswordArgs ==
    [func : {"generate_password"}, entropy : Bool, length : PwLengths,
     punctuation : Bool, capitalize : {FALSE}, delimiter : {None},
     file : {None}]

PassphraseArgs ==
    [func : {"generate_passphrase"}, entropy : Bool, length : PhraseLengths,
     punctuation : {FALSE}, capitalize : Bool, delimiter : {None, "-", "|"},
     file : {None, "", ExplicitFile}]

TokenArgs ==
    [func : {"generate_token", "generate_token_url"}, entropy : Bool,
     length : TokenLengths, punctuation : {FALSE}, capitalize : {FALSE},
     delimiter : {None}, file : {None}]

Init ==
    /\ args \in PasswordArgs \cup PassphraseArgs \cup TokenArgs
    /\ fs \in SUBSET (Range(wordlists) \cup {ExplicitFile})
    /\ args.func # "generate_passphrase" => fs = {}
    /\ pc = "start"
    /\ chars = <<>>
    /\ secret = <<>>
    /\ fp = Unbound
    /\ delimiter = Unbound
    /\ words = <<>>
    /\ out = <<>>
    /\ exc = None

Next ==
    \/ generate_password_begin
    \/ generate_password_loop
    \/ generate_password_print
    \/ generate_password_report
    \/ generate_passphrase_resolve
    \/ generate_passphrase_delimiter
    \/ generate_passphrase_load
    \/ generate_passphrase_sample
    \/ generate_passphrase_report
    \/ generate_token_begin
    \/ generate_token_report
    \/ generate_token_url_begin
    \/ generate_token_url_report

Spec == Init /\ [][Next]_vars

-----------------------------------------------------------------------------
(* generate_password alone, with the fairness of the random source: the    *)
(* invocation keeps running, and a loop that draws again and again         *)
(* eventually draws a candidate of all three classes.                      *)

InitPassword == Init /\ args.func = "generate_password"

NextPassword ==
    \/ generate_password_begin
    \/ generate_password_loop
    \/ generate_password_print
    \/ generate_password_report

AcceptingDraw == generate_password_loop /\ Accepted(secret')

SpecPassword ==
    /\ InitPassword
    /\ [][NextPassword]_vars
    /\ WF_vars(generate_password_begin)
    /\ WF_vars(generate_password_print)
    /\ SF_vars(AcceptingDraw)

-----------------------------------------------------------------------------
(* entropy(l, n) called on its own *)

EntropyLengths == {BigOf(l) : l \in 0..MaxEntropyLength}

InitEntropy ==
    /\ args \in [func : {"entropy"}, l : EntropyLengths, n : EntropyCounts]
    /\ fs = {}
    /\ pc = "start"
    /\ chars = <<>>
    /\ secret = <<>>
    /\ fp = Unbound
    /\ delimiter = Unbound
    /\ words = <<>>
    /\ out = <<>>
    /\ exc = None

entropy_call ==
    /\ pc = "start"
    /\ args.func = "entropy"
    /\ out' = <<EntropyLine(entropy(args.l, args.n))>>
    /\ pc' = "done"
    /\ UNCHANGED <<args, fs, chars, secret, fp, delimiter, words, exc>>

SpecEntropy == InitEntropy /\ [][entropy_call]_vars

-----------------------------------------------------------------------------
(* Properties *)

IsSecretLine(r) == r.t = "secret"

\* the secrets printed so far
Emitted == SelectSeq(out, IsSecretLine)

Finished == pc \in {"done", "crashed"}

HasAllClasses(s) ==
    /\ \E i \in 1..Len(s) : s[i] \in Range(ascii_lowercase)
    /\ \E i \in 1..Len(s) : s[i] \in Range(ascii_uppercase)
    /\ \E i \in 1..Len(s) : s[i] \in Range(digits)

MinimumOf(func) ==
    CASE func = "generate_password" -> PW_MIN
      [] func = "generate_passphrase" -> PHRASE_MIN
      [] func = "generate_token" -> TOKEN_MIN
      [] func = "generate_token_url" -> URL_TOKEN_MIN

\* C1: a secret printed by generate_password has exactly args.length
\* characters (and args.length exceeds 13), each of them a letter or a digit,
\* or a punctuation character when args.punctuation is set, and it holds a
\* lowercase letter, an uppercase letter and a digit.
C1_PasswordShape ==
    args.func = "generate_password" =>
        \A k \in 1..Len(Emitted) :
            LET s == Emitted[k].v
            IN  /\ args.length > PW_MIN
                /\ Len(s) = args.length
                /\ \A i \in 1..Len(s) :
                      \/ s[i] \in Range(ascii_letters) \cup Range(digits)
                      \/ args.punctuation /\ s[i] \in Range(punctuation)
                /\ HasAllClasses(s)

C1_Witness ==
    /\ args.func = "generate_password"
    /\ args.punctuation
    /\ args.length = PW_MIN + 1
    /\ Len(Emitted) = 1
    /\ \E i \in 1..Len(Emitted[1].v) : Emitted[1].v[i] \in Range(punctuation)

\* C2: with a length at or below the generator's minimum, the invocation
\* prints nothing but the ValueError message: it ends in main's handler with
\* that one line, and no secret is ever built or printed, nor any report.
C2_ShortLengthRejected ==
    args.length <= MinimumOf(args.func) =>
        /\ secret = <<>>
        /\ \A i \in 1..Len(out) : out[i].t = "error"
        /\ pc # "start" => pc = "done" /\ exc = "ValueError" /\ Len(out) = 1

C2_Witness ==
    /\ args.func = "generate_token_url"
    /\ args.length = URL_TOKEN_MIN
    /\ args.entropy
    /\ pc = "done"
    /\ exc = "ValueError"

\* the text s is c elements of ws with the symbol d between neighbours
RECURSIVE CanSplit(_, _, _, _)
CanSplit(s, c, ws, d) ==
    IF c = 1 THEN s \in Range(ws)
    ELSE \E k \in 1..Len(ws) :
            LET w == ws[k]
            IN  /\ Len(s) > Len(w)
                /\ SubSeq(s, 1, Len(w)) = w
                /\ s[Len(w) + 1] = d
                /\ CanSplit(SubSeq(s, Len(w) + 2, Len(s)), c - 1, ws, d)

\* C3: a secret printed by generate_passphrase is args.length (more than 3)
\* elements of the loaded word collection with one and the same delimiter
\* between each two neighbours: args.delimiter when it is given, otherwise
\* the one symbol of the delimiter list chosen for the invocation.
C3_PhraseShape ==
    args.func = "generate_passphrase" =>
        \A k \in 1..Len(Emitted) :
            /\ args.length > PHRASE_MIN
            /\ delimiter \in Range(delimiters)
            /\ args.delimiter # None => delimiter = args.delimiter
            /\ CanSplit(Emitted[k].v, args.length, words, delimiter)

C3_Witness ==
    /\ args.func = "generate_passphrase"
    /\ args.delimiter = None
    /\ args.length = PHRASE_MIN + 2
    /\ delimiter = "-"
    /\ fp = "/usr/share/dict/words"
    /\ Len(Emitted) = 1

\* C4: with an explicit word-list path (anything but None) that is no
\* regular file the invocation fails with FileNotFoundError and prints no
\* secret; with one that is a regular file, that file is the one resolved.
C4_ExplicitPath ==
    (/\ args.func = "generate_passphrase"
     /\ args.length > PHRASE_MIN
     /\ args.file # None
     /\ pc # "start")
        => IF is_file(args.file)
           THEN fp = args.file
           ELSE pc = "done" /\ exc = "FileNotFoundError" /\ Emitted = <<>>

FirstFallback ==
    CHOOSE i \in 1..Len(wordlists) :
        is_file(wordlists[i]) /\ \A j \in 1..(i - 1) : ~is_file(wordlists[j])

\* C5: with no explicit path, the path resolved is the first of the four
\* fallback paths that is a file, and the words are loaded from it; when
\* none of the four is a file the invocation ends with the FileNotFoundError
\* message and no secret.
C5_FallbackOrder ==
    (/\ args.func = "generate_passphrase"
     /\ args.length > PHRASE_MIN
     /\ args.file = None
     /\ pc # "start")
        => IF \E i \in 1..Len(wordlists) : is_file(wordlists[i])
           THEN /\ fp = wordlists[FirstFallback]
                /\ pc \in {"ph_sample", "ph_report"} \/ Emitted # <<>>
                      => words = LoadWords(FileText(wordlists[FirstFallback]),
                                           args.capitalize)
           ELSE /\ pc = "done"
                /\ exc = "FileNotFoundError"
                /\ out = <<ErrorLine("Word list not found. Please provide word-list file")>>

C5_Witness ==
    /\ args.func = "generate_passphrase"
    /\ args.file = None
    /\ fs = {"/usr/share/dict/words", "/etc/dictionaries-common/words", ExplicitFile}
    /\ fp = "/usr/share/dict/words"
    /\ Len(Emitted) = 1

\* C6: no exception leaves main unhandled: whatever a generator raises ends
\* the invocation in main's handler with the message as the last line.
C6_AllFailuresCaught ==
    /\ pc # "crashed"
    /\ exc # None => pc = "done" /\ out # <<>> /\ out[Len(out)].t = "error"

\* C7: when the report is requested and the secret is printed, the
\* invocation ends with the report complete: float(n**l) raises nothing and
\* the possible-combinations line is the last line.
C7_ReportCompletes ==
    (args.entropy /\ Emitted # <<>> /\ Finished)
        => exc # "OverflowError" /\ out[Len(out)].t = "combinations"

\* the largest k with 2^k <= n^l
ExactBits(l, n) == BitLength(BigPow(n, BigToInt(l))) - 1

\* C8: entropy(l, n) is the largest k with 2^k <= n^l, it does not decrease
\* when l or n grows, and entropy(10, 62) = 59.
C8_EntropyIsFloor ==
    (args.func = "entropy" /\ pc = "done") =>
        LET e == BigToInt(out[1].v)
        IN  /\ e = ExactBits(args.l, args.n)
            /\ \A l2 \in EntropyLengths :
                  BigCmp(l2, args.l) <= 0 => BigToInt(entropy(l2, args.n)) <= e
            /\ \A n2 \in EntropyCounts :
                  BigCmp(n2, args.n) <= 0 => BigToInt(entropy(args.l, n2)) <= e
            /\ BigToInt(entropy(BigOf(10), BigOf(62))) = 59

\* C9: every element of the loaded word collection is a non-empty string
\* with no whitespace at either end.
C9_NoEmptyWord ==
    \A k \in 1..Len(words) :
        /\ words[k] # <<>>
        /\ words[k][1] \notin Whitespace
        /\ words[k][Len(words[k])] \notin Whitespace

\* C10: each iteration of generate_password's loop draws a whole candidate
\* of args.length characters; a candidate without a lowercase letter, an
\* uppercase letter or a digit is not printed and the loop goes on, however
\* many were drawn before; and once the loop is entered a secret is
\* eventually printed, exactly one and with all three classes.
C10_LoopTerminates ==
    /\ [][generate_password_loop => Len(secret') = args.length]_vars
    /\ [][generate_password_loop /\ ~HasAllClasses(secret')
            => out' = out /\ pc' = "pw_loop"]_vars
    /\ [](pc = "pw_loop" => ENABLED generate_password_loop)
    /\ [](Len(Emitted) <= 1 /\ \A k \in 1..Len(Emitted) : HasAllClasses(Emitted[k].v))
    /\ (pc = "pw_loop") ~> (Len(Emitted) = 1)
    /\ [](Finished /\ args.length > PW_MIN => Len(Emitted) = 1)

C10_Witness ==
    /\ args.func = "generate_password"
    /\ ~args.entropy
    /\ args.length = PW_MIN + 1
    /\ pc = "done"
    /\ Len(Emitted) = 1

====
